---- MODULE Spec2Model ----
(***************************************************************************)
(* State-machine model of rasa_core/server.py: the requires_auth gate,     *)
(* the ensure_loaded_agent wrapper, the request handlers that read and     *)
(* write the tracker store, the two conversation sweeps and the output     *)
(* channel resolver _get_output_channel.                                   *)
(*                                                                         *)
(* Python values: a Text is a sequence of one-character strings; the       *)
(* Python None in a Text position is the one-element sequence None.  The   *)
(* Sanic config is a record that lacks the fields create_app never set,    *)
(* so config.get(k) is None exactly when k is not in its domain.           *)
(***************************************************************************)
EXTENDS Integers, Sequences, FiniteSets, TLC

VARIABLES
    auth_token,      \* create_app(auth_token=...): Text or None
    config,          \* app.config: USE_JWT and input_channels when set
    agent,           \* app.agent
    tracker_keys,    \* tracker_store.keys(), in enumeration order
    trackers,        \* tracker_store contents: sender id -> tracker
    now,             \* the clock read by datetime.utcnow()
    pc,              \* position of the request in flight
    req,             \* the request in flight
    resp,            \* the response sent for it
    invoked,         \* the wrapped handler f was called by requires_auth
    calls,           \* collaborator calls made while serving the request
    sweep,           \* loop state of a sweep handler
    tracker_arg,     \* tracker given to the last _get_output_channel call
    output_channel,  \* what the last _get_output_channel call returned
    suspended        \* the other request in flight, waiting on the event loop

vars == <<auth_token, config, agent, tracker_keys, trackers, now,
          pc, req, resp, invoked, calls, sweep, tracker_arg, output_channel,
          suspended>>

-----------------------------------------------------------------------------
(* Python values *)

None == <<"None">>

Digits == {"0", "1", "2", "3", "4", "5", "6", "7", "8", "9"}

\* Text values used as sender ids, usernames and store keys
T_plus1 == <<"+", "1">>
T_plus2 == <<"+", "2">>
T_a == <<"a">>
T_a_plus1 == <<"a", "+", "1">>

SECRET == <<"s">>
WRONG == <<"w">>

SetMin(S) == CHOOSE x \in S : \A y \in S : x <= y

SetMax(S) == CHOOSE x \in S : \A y \in S : x >= y

\* dict.get(k, default)
dict_get(d, k, default) == IF k \in DOMAIN d THEN d[k] ELSE default

EmptyDict == [k \in {} |-> None]

\* list.index(x), 0-based; -1 stands for the ValueError
list_index(l, x) ==
    IF \E i \in 1..Len(l) : l[i] = x
    THEN SetMin({i \in 1..Len(l) : l[i] = x}) - 1
    ELSE -1

-----------------------------------------------------------------------------
(* ErrorResponse and the responses a request can end with *)

NoDetails == {}

ErrorResponse(status, reason, message, details) ==
    [kind |-> "error",
     status |-> status,
     error_info |-> [status |-> "failure",
                     message |-> message,
                     reason |-> reason,
                     details |-> details,
                     code |-> status],
     body |-> EmptyDict]

\* response.json(body) / response.text(body, status)
JsonResponse(status, body) ==
    [kind |-> "ok",
     status |-> status,
     error_info |-> [status |-> "", message |-> "", reason |-> "",
                     details |-> NoDetails, code |-> 0],
     body |-> body]

\* an exception no handler converts: Sanic answers 500 without the envelope
UnhandledException(name) ==
    [kind |-> "unhandled",
     status |-> 500,
     error_info |-> [status |-> "", message |-> name, reason |-> "",
                     details |-> NoDetails, code |-> 0],
     body |-> EmptyDict]

NoResponse ==
    [kind |-> "none",
     status |-> 0,
     error_info |-> [status |-> "", message |-> "", reason |-> "",
                     details |-> NoDetails, code |-> 0],
     body |-> EmptyDict]

-----------------------------------------------------------------------------
(* The protected operations: handler signature and decorator stack *)

OpsWithSenderId == {"execute_action", "append_event", "retrieve_tracker"}

OpsWithoutSenderId == {"list_trackers", "handle_message_w_condition",
                       "trigger_resume_inactive_conv", "load_model",
                       "status", "get_domain"}

Ops == OpsWithSenderId \cup OpsWithoutSenderId

SweepOps == {"handle_message_w_condition", "trigger_resume_inactive_conv"}

\* handlers declared under @ensure_loaded_agent(app)
OpsEnsuringAgent == {"execute_action", "append_event",
                     "handle_message_w_condition",
                     "trigger_resume_inactive_conv", "get_domain"}

\* utils.arguments_of(f): the parameter names of the wrapped handler
arguments_of(op) ==
    IF op \in OpsWithSenderId THEN <<"request", "sender_id">>
    ELSE <<"request">>

-----------------------------------------------------------------------------
(* requires_auth *)

ADMIN == <<"admin">>
USER == <<"user">>
GUEST == <<"guest">>

USE_JWT_truthy == "USE_JWT" \in DOMAIN config /\ config["USE_JWT"]

USE_JWT_is_None == "USE_JWT" \notin DOMAIN config

sender_id_from_args(op, args, kwargs) ==
    LET argnames == arguments_of(op)
        sender_id_arg_idx == list_index(argnames, "sender_id")
    IN  IF sender_id_arg_idx = -1 THEN None
        ELSE IF "sender_id" \in DOMAIN kwargs THEN kwargs["sender_id"]
        ELSE IF sender_id_arg_idx < Len(args) THEN args[sender_id_arg_idx + 1]
        ELSE None

\* variants of sufficient_scope with one test changed
sufficient_scope_any_sender(request) ==
    LET user == dict_get(request.jwt_data, "user", EmptyDict)
        role == dict_get(user, "role", None)
    IN  IF role = ADMIN THEN TRUE
        ELSE IF role = USER
             THEN sender_id_from_args(request.op, request.pos_args,
                                      request.kwargs) # None
        ELSE FALSE

sufficient_scope_no_none_test(request) ==
    LET user == dict_get(request.jwt_data, "user", EmptyDict)
        username == dict_get(user, "username", None)
        role == dict_get(user, "role", None)
    IN  IF role = ADMIN THEN TRUE
        ELSE IF role = USER
             THEN username = sender_id_from_args(request.op, request.pos_args,
                                                 request.kwargs)
        ELSE FALSE

sufficient_scope_admin_as_user(request) ==
    LET user == dict_get(request.jwt_data, "user", EmptyDict)
        username == dict_get(user, "username", None)
        role == dict_get(user, "role", None)
    IN  IF role \in {ADMIN, USER}
        THEN LET sender_id == sender_id_from_args(request.op, request.pos_args,
                                                  request.kwargs)
             IN  sender_id # None /\ username = sender_id
        ELSE FALSE

sufficient_scope(request) ==
    LET jwt_data == request.jwt_data   \* auth.extract_payload(request)
        user == dict_get(jwt_data, "user", EmptyDict)
        username == dict_get(user, "username", None)
        role == dict_get(user, "role", None)
    IN  IF role = ADMIN THEN TRUE
        ELSE IF role = USER
             THEN LET sender_id == sender_id_from_args(request.op,
                                                       request.pos_args,
                                                       request.kwargs)
                  IN  sender_id # None /\ username = sender_id
        ELSE FALSE

\* variant: the secret is honoured only when JWT is off
token_branch_unless_jwt(request) ==
    auth_token # None /\ request.token = auth_token /\ ~USE_JWT_truthy

\* the branch of decorated a request takes
token_branch(request) ==
    auth_token # None /\ request.token = auth_token

jwt_branch(request) ==
    USE_JWT_truthy /\ request.is_authenticated

\* variants: the first test inverted; "or" in place of "and"
disabled_branch_inverted == auth_token # None /\ USE_JWT_is_None

disabled_branch_or == auth_token = None \/ USE_JWT_is_None

disabled_branch == auth_token = None /\ USE_JWT_is_None

NotAuthorized ==
    ErrorResponse(403, "NotAuthorized",
                  "User has insufficient permissions.", NoDetails)

NotAuthenticated ==
    ErrorResponse(401, "NotAuthenticated",
                  "User is not authenticated.", NoDetails)

\* variant: the 403 raise is missing, control falls to the final raise
gate_without_403(request) ==
    IF token_branch(request) THEN "call"
    ELSE IF jwt_branch(request) /\ sufficient_scope(request) THEN "call"
    ELSE IF disabled_branch THEN "call"
    ELSE "401"

\* variant: with a shared secret configured, a request whose token does not
\* match is rejected without looking at its JWT
gate_secret_blocks_jwt(request) ==
    IF token_branch(request) THEN "call"
    ELSE IF auth_token # None THEN "401"
    ELSE IF jwt_branch(request)
         THEN IF sufficient_scope(request) THEN "call" ELSE "403"
    ELSE IF disabled_branch THEN "call"
    ELSE "401"

\* "call" when decorated calls f, else the ErrorResponse it raises
gate(request) ==
    IF token_branch(request) THEN "call"
    ELSE IF jwt_branch(request)
         THEN IF sufficient_scope(request) THEN "call" ELSE "403"
    ELSE IF disabled_branch THEN "call"
    ELSE "401"

-----------------------------------------------------------------------------
(* The tracker store (get_or_create_tracker, init_tracker, save, keys) *)

seconds_in_a_day == 86400

NoTracker ==
    [exists |-> FALSE, slot |-> None, latest_event_time |-> 0,
     latest_input_channel |-> None]

\* init_tracker(sender_id) followed by the ActionExecuted(action_listen)
\* that create_tracker appends at the current time
init_tracker(t) ==
    [exists |-> TRUE, slot |-> None, latest_event_time |-> t,
     latest_input_channel |-> None]

retrieve(store, sender_id) ==
    IF sender_id \in DOMAIN store THEN store[sender_id] ELSE NoTracker

\* contents of the store after get_or_create_tracker(sender_id)
store_after_get_or_create(store, sender_id, t) ==
    IF sender_id \in DOMAIN store THEN store
    ELSE (sender_id :> init_tracker(t)) @@ store

keys_after_get_or_create(ks, store, sender_id) ==
    IF sender_id \in DOMAIN store THEN ks ELSE Append(ks, sender_id)

\* contents of the store after save(tracker) under sender_id
store_after_save(store, sender_id, tracker) ==
    (sender_id :> tracker) @@ store

\* the dialogue agent appended events to the conversation at time t
tracker_after_agent(tracker, t) ==
    [tracker EXCEPT !.latest_event_time = t]

retrieve_keys_raises == ~agent.tracker_store

retrieve_keys == tracker_keys

\* variant: strict comparison
compare_utcdatetime_with_timegap_strict(dt_a, dt_b, gap) == (dt_a - dt_b) > gap

compare_utcdatetime_with_timegap(dt_a, dt_b, gap) == (dt_a - dt_b) >= gap

-----------------------------------------------------------------------------
(* _get_output_channel *)

OUTPUT_CHANNEL_QUERY_KEY == "output_channel"

USE_LATEST_INPUT_CHANNEL_AS_OUTPUT_CHANNEL == <<"latest">>

CollectingOutputChannel == <<"CollectingOutputChannel">>

TypeError == <<"TypeError">>

TELEGRAM == <<"telegram">>
SLACK == <<"slack">>

\* channel.name() of the i-th registered input channel
channel_name(channels, i) == channels[i].name

\* channel.get_output_channel(): its own handle, or None
get_output_channel_of(channels, i) ==
    IF channels[i].provides_output THEN <<"OutputChannel", i>> ELSE None

RECURSIVE reduce_channels_keeps_first(_, _, _)
\* variant: an output channel already created is kept
reduce_channels_keeps_first(channels, matching, so_far) ==
    IF matching = <<>> THEN so_far
    ELSE LET created == get_output_channel_of(channels, Head(matching))
         IN  reduce_channels_keeps_first(channels, Tail(matching),
                 IF created # None /\ so_far = CollectingOutputChannel
                 THEN created ELSE so_far)

RECURSIVE reduce_channels(_, _, _)
\* functools.reduce(lambda so_far, ch: ch.get_output_channel() or so_far,
\*                  matching, initial) over the indices in matching
reduce_channels(channels, matching, so_far) ==
    IF matching = <<>> THEN so_far
    ELSE LET created == get_output_channel_of(channels, Head(matching))
         IN  reduce_channels(channels, Tail(matching),
                             IF created # None THEN created ELSE so_far)

\* variant: every registered channel matches, whatever its name
matching_indices_any_name(channels, requested, i) ==
    [j \in 1..(Len(channels) - i + 1) |-> j + i - 1]

RECURSIVE matching_indices(_, _, _)
\* the list comprehension: indices i, in order, with name() == requested
matching_indices(channels, requested, i) ==
    IF i > Len(channels) THEN <<>>
    ELSE IF channel_name(channels, i) = requested
         THEN <<i>> \o matching_indices(channels, requested, i + 1)
         ELSE matching_indices(channels, requested, i + 1)

\* variant: the "latest" sentinel is not replaced by the tracker's channel
get_output_channel_keeps_sentinel(args, tracker, cfg) ==
    LET requested_output_channel == dict_get(args, OUTPUT_CHANNEL_QUERY_KEY, None)
    IN  IF "input_channels" \notin DOMAIN cfg THEN TypeError
        ELSE reduce_channels(cfg["input_channels"],
                             matching_indices(cfg["input_channels"],
                                              requested_output_channel, 1),
                             CollectingOutputChannel)

get_output_channel(args, tracker, cfg) ==
    LET requested_output_channel == dict_get(args, OUTPUT_CHANNEL_QUERY_KEY, None)
        resolved ==
            IF requested_output_channel = USE_LATEST_INPUT_CHANNEL_AS_OUTPUT_CHANNEL
               /\ tracker.exists
            THEN tracker.latest_input_channel
            ELSE requested_output_channel
    IN  IF "input_channels" \notin DOMAIN cfg THEN TypeError
        ELSE LET registered_input_channels == cfg["input_channels"]
                 matching_channels ==
                     matching_indices(registered_input_channels, resolved, 1)
             IN  reduce_channels(registered_input_channels, matching_channels,
                                 CollectingOutputChannel)

-----------------------------------------------------------------------------
(* Request parameters *)

\* re.findall('\+[0-9]+', s): end of the digit run that starts at j
RECURSIVE digits_end(_, _)
digits_end(s, j) ==
    IF j < Len(s) /\ s[j + 1] \in Digits THEN digits_end(s, j + 1) ELSE j

\* re.findall('\+[0-9]+', s)[0:1]: the first match, <<>> when there is none
re_findall_first(s) ==
    LET starts == {i \in 1..(Len(s) - 1) : s[i] = "+" /\ s[i + 1] \in Digits}
    IN  IF starts = {} THEN <<>>
        ELSE LET i == SetMin(starts)
             IN  <<SubSeq(s, i, digits_end(s, i + 1))>>

\* str.upper() on the include_events values
upper(t) == IF t = <<"all">> THEN <<"ALL">> ELSE t

EventVerbosity == {<<"NONE">>, <<"APPLIED">>, <<"AFTER_RESTART">>, <<"ALL">>}

\* event_verbosity_parameter raises its ErrorResponse
event_verbosity_raises(request, default_name) ==
    upper(dict_get(request.query, "include_events", default_name))
        \notin EventVerbosity

InvalidIncludeEvents ==
    ErrorResponse(404, "InvalidParameter",
                  "Invalid parameter value for 'include_events'.",
                  {<<"parameter", "include_events">>, <<"in", "query">>})

SLOT == <<"s">>
SLOT_DEFAULT == <<>>
VALUE_X == <<"x">>

\* variant: every slot reads as unset
get_slot_unset(tracker, slot_name) == None

\* tracker.get_slot(slot_name): None for a slot the domain does not have
get_slot(tracker, slot_name) ==
    IF slot_name = SLOT THEN tracker.slot ELSE None

AgentOutcomes == {"ok", "ValueError", "Exception"}

-----------------------------------------------------------------------------
(* Bounds and the requests the environment sends *)

MaxLoads == 1        \* PUT /model requests served
MaxKeys == 3         \* conversations in the store when a sweep spec starts
MaxChannels == 2     \* registered input channels

StartTime == 86400

\* a dict with the keys whose value is given (None: key absent)
OptDict2(k1, v1, k2, v2) ==
    [k \in (IF v1 = None THEN {} ELSE {k1}) \cup (IF v2 = None THEN {} ELSE {k2})
        |-> IF k = k1 THEN v1 ELSE v2]

SenderIds == {T_plus1, T_a}

Usernames == {T_plus1, T_a}

UserClaims ==
    {OptDict2("username", u, "role", r) :
        u \in Usernames \cup {None}, r \in {None, ADMIN, USER, GUEST}}

JwtPayloads == {EmptyDict} \cup {[user |-> u] : u \in UserClaims}

Credentials ==
    {[token |-> t, is_authenticated |-> FALSE, jwt_data |-> EmptyDict] :
        t \in {None, SECRET, WRONG}}
    \cup
    {[token |-> t, is_authenticated |-> TRUE, jwt_data |-> j] :
        t \in {None, SECRET, WRONG}, j \in JwtPayloads}

NoCredentials ==
    [token |-> None, is_authenticated |-> FALSE, jwt_data |-> EmptyDict]

DefaultJson ==
    [force_update |-> FALSE, slot_condition_name |-> SLOT_DEFAULT,
     slot_value |-> None, has_event |-> TRUE, has_body |-> TRUE]

Request(op, cred, kwargs, query, json, accept) ==
    [op |-> op,
     token |-> cred.token,
     is_authenticated |-> cred.is_authenticated,
     jwt_data |-> cred.jwt_data,
     pos_args |-> <<>>,
     kwargs |-> kwargs,
     query |-> query,
     json |-> json,
     accept |-> accept]

NoRequest ==
    Request("none", NoCredentials, EmptyDict, EmptyDict, DefaultJson, "json")

\* the router passes the <sender_id> path segment as a keyword argument
RouteKwargs(op) ==
    IF op \in OpsWithSenderId
    THEN {[sender_id |-> sid] : sid \in SenderIds}
    ELSE {EmptyDict}

\* every operation under every credential, with default parameters
GateRequests ==
    UNION {{Request(op, c, kw, EmptyDict, DefaultJson, "json") :
                c \in Credentials, kw \in RouteKwargs(op)} : op \in Ops}

SweepQueries ==
    {OptDict2("output_channel", oc, "include_events", None) :
        oc \in {None, USE_LATEST_INPUT_CHANNEL_AS_OUTPUT_CHANNEL}}

SweepJsons(op) ==
    IF op = "handle_message_w_condition"
    THEN {[DefaultJson EXCEPT !.force_update = b,
                              !.slot_condition_name = SLOT,
                              !.slot_value = v] :
            b \in BOOLEAN, v \in {None, VALUE_X}}
    ELSE {[DefaultJson EXCEPT !.force_update = b] : b \in BOOLEAN}

\* the two sweep operations under every parameter, without credentials
SweepRequests ==
    UNION {{Request(op, NoCredentials, EmptyDict, q, j, "json") :
                q \in SweepQueries, j \in SweepJsons(op)} : op \in SweepOps}

-----------------------------------------------------------------------------
(* create_app: the state after construction *)

NoAgent ==
    [loaded |-> FALSE, ready |-> FALSE, tracker_store |-> FALSE, version |-> 0]

\* agents create_app can be given: none, one without a Core model, a ready one
Agents(version) ==
    {[loaded |-> TRUE, ready |-> FALSE, tracker_store |-> s, version |-> version] :
        s \in BOOLEAN}
    \cup
    {[loaded |-> TRUE, ready |-> TRUE, tracker_store |-> TRUE, version |-> version]}

DefaultChannels ==
    <<[name |-> TELEGRAM, provides_output |-> TRUE],
      [name |-> SLACK, provides_output |-> FALSE]>>

\* app.config after create_app(jwt_secret, jwt_method) and the optional
\* registration of the input channels
AppConfig(use_jwt, channels_set, channels) ==
    [k \in (IF use_jwt THEN {"USE_JWT"} ELSE {})
           \cup (IF channels_set THEN {"input_channels"} ELSE {})
        |-> IF k = "USE_JWT" THEN TRUE ELSE channels]

\* jwt_secret and jwt_method: USE_JWT is set iff both are truthy
JwtSecrets == {None, <<>>, <<"k">>}
JwtMethods == {<<"HS256">>, <<>>}
truthy_text(t) == t # None /\ t # <<>>

NoSweep ==
    [ids |-> <<>>, i |-> 0, responses |-> EmptyDict, current_time |-> 0,
     dispatched |-> <<>>, failed |-> <<>>, agent |-> NoAgent]

StoredTracker(slot, t, channel) ==
    [exists |-> TRUE, slot |-> slot, latest_event_time |-> t,
     latest_input_channel |-> channel]

\* the state of a coroutine that serves no request
NoContext ==
    [pc |-> "idle", req |-> NoRequest, resp |-> NoResponse, invoked |-> FALSE,
     calls |-> {}, sweep |-> NoSweep, tracker_arg |-> NoTracker,
     output_channel |-> None]

InitRequest ==
    /\ pc = "idle"
    /\ req = NoRequest
    /\ resp = NoResponse
    /\ invoked = FALSE
    /\ calls = {}
    /\ sweep = NoSweep
    /\ tracker_arg = NoTracker
    /\ output_channel = None
    /\ suspended = NoContext

Init ==
    /\ auth_token \in {None, SECRET}
    /\ \E jwt_secret \in JwtSecrets, jwt_method \in JwtMethods,
          channels_set \in BOOLEAN :
          config = AppConfig(truthy_text(jwt_secret) /\ truthy_text(jwt_method),
                             channels_set, DefaultChannels)
    /\ agent \in {NoAgent} \cup Agents(0)
    /\ tracker_keys = <<T_plus1, T_plus2>>
    /\ trackers = (T_plus1 :> StoredTracker(VALUE_X, 0, TELEGRAM))
                  @@ (T_plus2 :> StoredTracker(None, 1, SLACK))
    /\ now = StartTime
    /\ InitRequest

-----------------------------------------------------------------------------
(* A request arrives, passes requires_auth and ensure_loaded_agent *)

Receive(requests) ==
    /\ pc = "idle"
    /\ \E r \in requests :
          /\ r.op = "load_model" => agent.version < MaxLoads
          /\ req' = r
    /\ pc' = "auth"
    /\ resp' = NoResponse
    /\ invoked' = FALSE
    /\ calls' = {}
    /\ sweep' = NoSweep
    /\ UNCHANGED <<suspended, auth_token, config, agent, tracker_keys, trackers, now,
                   tracker_arg, output_channel>>

ReceiveRequest == Receive(GateRequests)

ReceiveSweep == Receive(SweepRequests)

NoAgentError ==
    ErrorResponse(503, "NoAgent", "No agent loaded.", NoDetails)

\* variant: the decorators are stacked in the other order, so the agent is
\* checked before the credentials
decorated_after_ensure ==
    /\ pc = "auth"
    /\ LET outcome == gate(req)
           no_agent == req.op \in OpsEnsuringAgent
                       /\ (~agent.loaded \/ ~agent.ready)
       IN  IF no_agent
           THEN /\ resp' = NoAgentError
                /\ calls' = calls \cup {"app.agent.is_ready"}
                /\ pc' = "done"
                /\ UNCHANGED invoked
           ELSE IF outcome = "call"
           THEN /\ invoked' = TRUE
                /\ calls' = calls \cup {"f"}
                /\ pc' = "handler"
                /\ UNCHANGED resp
           ELSE /\ resp' = IF outcome = "403" THEN NotAuthorized
                           ELSE NotAuthenticated
                /\ pc' = "done"
                /\ UNCHANGED <<invoked, calls>>
    /\ UNCHANGED <<suspended, auth_token, config, agent, tracker_keys, trackers, now,
                   req, sweep, tracker_arg, output_channel>>

\* requires_auth.decorated up to the call of the wrapped handler
decorated ==
    /\ pc = "auth"
    /\ LET outcome == gate(req)
       IN  IF outcome = "call"
           THEN /\ invoked' = TRUE
                /\ calls' = calls \cup {"f"}
                /\ pc' = IF req.op \in OpsEnsuringAgent THEN "ensure"
                         ELSE "handler"
                /\ UNCHANGED resp
           ELSE /\ resp' = IF outcome = "403" THEN NotAuthorized
                           ELSE NotAuthenticated
                /\ pc' = "done"
                /\ UNCHANGED <<invoked, calls>>
    /\ UNCHANGED <<suspended, auth_token, config, agent, tracker_keys, trackers, now,
                   req, sweep, tracker_arg, output_channel>>

ensure_loaded_agent ==
    /\ pc = "ensure"
    /\ calls' = calls \cup {"app.agent.is_ready"}
    /\ IF ~agent.loaded \/ ~agent.ready
       THEN resp' = NoAgentError /\ pc' = "done"
       ELSE pc' = "handler" /\ UNCHANGED resp
    /\ UNCHANGED <<suspended, auth_token, config, agent, tracker_keys, trackers, now,
                   req, invoked, sweep, tracker_arg, output_channel>>

\* the response has been sent and the request's state is discarded
Reply ==
    /\ pc = "done"
    /\ pc' = "idle"
    /\ req' = NoRequest
    /\ resp' = NoResponse
    /\ invoked' = FALSE
    /\ calls' = {}
    /\ sweep' = NoSweep
    /\ tracker_arg' = NoTracker
    /\ output_channel' = None
    /\ UNCHANGED <<suspended, auth_token, config, agent, tracker_keys, trackers, now>>

-----------------------------------------------------------------------------
(* The handlers of single-conversation and collection operations *)

AttributeError == UnhandledException("AttributeError")

NoTrackerStoreError ==
    ErrorResponse(503, "NoTrackerStore", "No tracker store available.",
                  NoDetails)

\* POST /conversations/<sender_id>/execute
execute_action ==
    /\ pc = "handler" /\ req.op = "execute_action"
    /\ LET sender_id == req.kwargs["sender_id"]
           store1 == store_after_get_or_create(trackers, sender_id, now)
           keys1 == keys_after_get_or_create(tracker_keys, trackers, sender_id)
           tracker == retrieve(store1, sender_id)
           channel == get_output_channel(req.query, tracker, config)
       IN  IF event_verbosity_raises(req, <<"AFTER_RESTART">>)
           THEN /\ resp' = InvalidIncludeEvents
                /\ UNCHANGED <<tracker_keys, trackers, calls, tracker_arg,
                               output_channel>>
           ELSE /\ tracker_arg' = tracker
                /\ output_channel' = channel
                /\ tracker_keys' = keys1
                /\ IF channel = TypeError
                   THEN /\ trackers' = store1
                        /\ calls' = calls \cup
                               {"tracker_store.get_or_create_tracker"}
                        /\ resp' = ErrorResponse(500, "ValueError",
                                                 "Server failure.", NoDetails)
                   ELSE \E outcome \in AgentOutcomes :
                        /\ calls' = calls \cup
                               {"tracker_store.get_or_create_tracker",
                                "agent.execute_action"}
                        /\ IF outcome = "ok"
                           THEN /\ trackers' = store_after_save(store1, sender_id,
                                       tracker_after_agent(tracker, now))
                                /\ resp' = JsonResponse(200,
                                       [tracker |-> trackers'[sender_id]])
                           ELSE /\ trackers' = store1
                                /\ resp' = IF outcome = "ValueError"
                                           THEN ErrorResponse(400, "ValueError",
                                                    "<exception>", NoDetails)
                                           ELSE ErrorResponse(500, "ValueError",
                                                    "Server failure.", NoDetails)
    /\ pc' = "done"
    /\ UNCHANGED <<suspended, auth_token, config, agent, now, req, invoked, sweep>>

\* POST /conversations/<sender_id>/tracker/events
append_event ==
    /\ pc = "handler" /\ req.op = "append_event"
    /\ LET sender_id == req.kwargs["sender_id"]
           evt == req.json.has_event        \* Event.from_parameters(...)
           store1 == store_after_get_or_create(trackers, sender_id, now)
           keys1 == keys_after_get_or_create(tracker_keys, trackers, sender_id)
           tracker == retrieve(store1, sender_id)
       IN  /\ tracker_keys' = keys1
           /\ IF event_verbosity_raises(req, <<"AFTER_RESTART">>)
              THEN /\ trackers' = store1
                   /\ calls' = calls \cup {"tracker_store.get_or_create_tracker"}
                   /\ resp' = InvalidIncludeEvents
              ELSE IF evt
              THEN /\ trackers' = store_after_save(store1, sender_id,
                                      tracker_after_agent(tracker, now))
                   /\ calls' = calls \cup {"tracker_store.get_or_create_tracker",
                                           "tracker_store.save"}
                   /\ resp' = JsonResponse(200, [tracker |-> trackers'[sender_id]])
              ELSE /\ trackers' = store1
                   /\ calls' = calls \cup {"tracker_store.get_or_create_tracker"}
                   /\ resp' = ErrorResponse(400, "InvalidParameter",
                          "Couldn't extract a proper event from the request body.",
                          {<<"parameter", "">>, <<"in", "body">>})
    /\ pc' = "done"
    /\ UNCHANGED <<suspended, auth_token, config, agent, now, req, invoked, sweep,
                   tracker_arg, output_channel>>

\* GET /conversations/<sender_id>/tracker
retrieve_tracker ==
    /\ pc = "handler" /\ req.op = "retrieve_tracker"
    /\ LET sender_id == req.kwargs["sender_id"]
           store1 == store_after_get_or_create(trackers, sender_id, now)
           keys1 == keys_after_get_or_create(tracker_keys, trackers, sender_id)
       IN  IF ~agent.loaded
           THEN /\ resp' = AttributeError
                /\ calls' = calls \cup {"app.agent"}
                /\ UNCHANGED <<tracker_keys, trackers>>
           ELSE IF ~agent.tracker_store
           THEN /\ resp' = NoTrackerStoreError
                /\ calls' = calls \cup {"app.agent"}
                /\ UNCHANGED <<tracker_keys, trackers>>
           ELSE IF event_verbosity_raises(req, <<"AFTER_RESTART">>)
           THEN /\ resp' = InvalidIncludeEvents
                /\ calls' = calls \cup {"app.agent"}
                /\ UNCHANGED <<tracker_keys, trackers>>
           ELSE /\ trackers' = store1
                /\ tracker_keys' = keys1
                /\ calls' = calls \cup {"app.agent",
                                        "tracker_store.get_or_create_tracker"}
                /\ resp' = JsonResponse(200, [tracker |-> store1[sender_id]])
    /\ pc' = "done"
    /\ UNCHANGED <<suspended, auth_token, config, agent, now, req, invoked, sweep,
                   tracker_arg, output_channel>>

\* GET /conversations
list_trackers ==
    /\ pc = "handler" /\ req.op = "list_trackers"
    /\ IF ~agent.loaded
       THEN /\ resp' = AttributeError
            /\ calls' = calls \cup {"app.agent"}
       ELSE IF agent.tracker_store
       THEN /\ resp' = JsonResponse(200, tracker_keys)
            /\ calls' = calls \cup {"app.agent", "tracker_store.keys"}
       ELSE /\ resp' = JsonResponse(200, <<>>)
            /\ calls' = calls \cup {"app.agent"}
    /\ pc' = "done"
    /\ UNCHANGED <<suspended, auth_token, config, agent, tracker_keys, trackers, now, req,
                   invoked, sweep, tracker_arg, output_channel>>

\* PUT /model and _load_agent
load_model ==
    /\ pc = "handler" /\ req.op = "load_model"
    /\ IF ~req.json.has_body            \* validate_request_body
       THEN /\ resp' = ErrorResponse(400, "BadRequest",
                   "No path to model file defined in request_body.", NoDetails)
            /\ UNCHANGED agent
       ELSE \/ /\ resp' = ErrorResponse(500, "LoadingError",
                      "An unexpected error occurred.", NoDetails)
               /\ UNCHANGED agent
            \/ /\ resp' = ErrorResponse(400, "BadRequest",
                      "Agent could not be loaded.",
                      {<<"parameter", "model">>, <<"in", "query">>})
               /\ UNCHANGED agent
            \/ /\ agent' \in Agents(agent.version + 1)
               /\ resp' = JsonResponse(204, EmptyDict)
    /\ pc' = "done"
    /\ UNCHANGED <<suspended, auth_token, config, tracker_keys, trackers, now, req,
                   invoked, calls, sweep, tracker_arg, output_channel>>

\* GET /status
status ==
    /\ pc = "handler" /\ req.op = "status"
    /\ resp' = JsonResponse(200, [is_ready |-> agent.loaded /\ agent.ready])
    /\ calls' = calls \cup {"app.agent"}
    /\ pc' = "done"
    /\ UNCHANGED <<suspended, auth_token, config, agent, tracker_keys, trackers, now, req,
                   invoked, sweep, tracker_arg, output_channel>>

\* GET /domain
get_domain ==
    /\ pc = "handler" /\ req.op = "get_domain"
    /\ resp' = IF req.accept \in {"json", "yml"}
               THEN JsonResponse(200, EmptyDict)
               ELSE ErrorResponse(406, "InvalidHeader",
                                  "Invalid Accept header.", NoDetails)
    /\ calls' = calls \cup {"app.agent"}
    /\ pc' = "done"
    /\ UNCHANGED <<suspended, auth_token, config, agent, tracker_keys, trackers, now, req,
                   invoked, sweep, tracker_arg, output_channel>>

-----------------------------------------------------------------------------
(* The sweeps: one start step, one step per key, one return step *)

ActionException ==
    ErrorResponse(500, "ActionException", "Server failure.", NoDetails)

ValueError400 == ErrorResponse(400, "ValueError", "<exception>", NoDetails)

ValueError500 == ErrorResponse(500, "ValueError", "Server failure.", NoDetails)

\* POST /conversations/handle-message-w-condition: parameters and keys
handle_message_w_condition_start ==
    /\ pc = "handler" /\ req.op = "handle_message_w_condition"
    /\ IF retrieve_keys_raises
       THEN /\ resp' = NoTrackerStoreError
            /\ pc' = "done"
            /\ UNCHANGED <<sweep, calls>>
       ELSE /\ sweep' = [NoSweep EXCEPT !.ids = retrieve_keys, !.i = 1,
                                        !.agent = agent]
            /\ calls' = calls \cup {"tracker_store.keys"}
            /\ pc' = "loop"
            /\ UNCHANGED resp
    /\ UNCHANGED <<suspended, auth_token, config, agent, tracker_keys, trackers, now, req,
                   invoked, tracker_arg, output_channel>>

\* one iteration of its for loop, inside the try block
handle_message_w_condition_key ==
    /\ pc = "loop" /\ req.op = "handle_message_w_condition"
    /\ sweep.i <= Len(sweep.ids)
    /\ LET id == sweep.ids[sweep.i]
           found == re_findall_first(id)
           slot_name == req.json.slot_condition_name
           slot_value == req.json.slot_value
           force_update == req.json.force_update
       IN  IF found = <<>> \/ ~agent.tracker_store
           THEN \* IndexError / AttributeError, caught by except Exception
                /\ resp' = ActionException
                /\ pc' = "done"
                /\ UNCHANGED <<tracker_keys, trackers, sweep, calls,
                               tracker_arg, output_channel>>
           ELSE LET sender_id_str == found[1]
                    store1 == store_after_get_or_create(trackers,
                                                        sender_id_str, now)
                    keys1 == keys_after_get_or_create(tracker_keys, trackers,
                                                      sender_id_str)
                    tracker == retrieve(store1, sender_id_str)
                    tracker_slot_value == get_slot(tracker, slot_name)
                    channel == get_output_channel(req.query, tracker, config)
                IN  /\ tracker_keys' = keys1
                    /\ IF force_update \/ tracker_slot_value = slot_value
                       THEN /\ tracker_arg' = tracker
                            /\ output_channel' = channel
                            /\ IF channel = TypeError
                               THEN /\ trackers' = store1
                                    /\ calls' = calls \cup
                                         {"tracker_store.get_or_create_tracker"}
                                    /\ resp' = ActionException
                                    /\ pc' = "done"
                                    /\ UNCHANGED sweep
                               ELSE \E outcome \in AgentOutcomes :
                                    /\ calls' = calls \cup
                                         {"tracker_store.get_or_create_tracker",
                                          "agent.handle_text"}
                                    /\ IF outcome = "ok"
                                       THEN /\ trackers' = store_after_save(store1,
                                                   sender_id_str,
                                                   tracker_after_agent(tracker, now))
                                            /\ sweep' = [sweep EXCEPT
                                                 !.i = @ + 1,
                                                 !.responses =
                                                     (id :> <<"Message handle from id",
                                                              sender_id_str>>) @@ @,
                                                 !.dispatched = Append(@, id)]
                                            /\ pc' = "loop"
                                            /\ UNCHANGED resp
                                       ELSE /\ trackers' = store1
                                            /\ sweep' = [sweep EXCEPT
                                                 !.dispatched = Append(@, id),
                                                 !.failed = Append(@, id)]
                                            /\ resp' = IF outcome = "ValueError"
                                                       THEN ValueError400
                                                       ELSE ActionException
                                            /\ pc' = "done"
                       ELSE /\ trackers' = store1
                            /\ calls' = calls \cup
                                 {"tracker_store.get_or_create_tracker"}
                            /\ sweep' = [sweep EXCEPT !.i = @ + 1]
                            /\ pc' = "loop"
                            /\ UNCHANGED <<resp, tracker_arg, output_channel>>
    /\ UNCHANGED <<suspended, auth_token, config, agent, now, req, invoked>>

\* variant: the returned dict has an entry for every enumerated key
handle_message_w_condition_return_every_key ==
    /\ pc = "loop" /\ req.op = "handle_message_w_condition"
    /\ sweep.i > Len(sweep.ids)
    /\ resp' = JsonResponse(200, [k \in {sweep.ids[n] : n \in DOMAIN sweep.ids}
                                     |-> IF k \in DOMAIN sweep.responses
                                         THEN sweep.responses[k]
                                         ELSE <<"Skipped">>])
    /\ pc' = "done"
    /\ UNCHANGED <<suspended, auth_token, config, agent, tracker_keys, trackers, now, req,
                   invoked, calls, sweep, tracker_arg, output_channel>>

\* the loop has ended: return response.json(responses)
handle_message_w_condition_return ==
    /\ pc = "loop" /\ req.op = "handle_message_w_condition"
    /\ sweep.i > Len(sweep.ids)
    /\ resp' = JsonResponse(200, sweep.responses)
    /\ pc' = "done"
    /\ UNCHANGED <<suspended, auth_token, config, agent, tracker_keys, trackers, now, req,
                   invoked, calls, sweep, tracker_arg, output_channel>>

\* POST /conversations/resume-dead-conversations: parameters, keys and clock
trigger_resume_inactive_conv_start ==
    /\ pc = "handler" /\ req.op = "trigger_resume_inactive_conv"
    /\ IF event_verbosity_raises(req, IF req.json.force_update
                                      THEN <<"APPLIED">>
                                      ELSE <<"AFTER_RESTART">>)
       THEN /\ resp' = InvalidIncludeEvents
            /\ pc' = "done"
            /\ UNCHANGED <<sweep, calls>>
       ELSE IF retrieve_keys_raises
       THEN /\ resp' = NoTrackerStoreError
            /\ pc' = "done"
            /\ UNCHANGED <<sweep, calls>>
       ELSE /\ sweep' = [NoSweep EXCEPT !.ids = retrieve_keys, !.i = 1,
                                        !.current_time = now,
                                        !.agent = agent]
            /\ calls' = calls \cup {"tracker_store.keys"}
            /\ pc' = "loop"
            /\ UNCHANGED resp
    /\ UNCHANGED <<suspended, auth_token, config, agent, tracker_keys, trackers, now, req,
                   invoked, tracker_arg, output_channel>>

\* one iteration of its for loop
trigger_resume_inactive_conv_key ==
    /\ pc = "loop" /\ req.op = "trigger_resume_inactive_conv"
    /\ sweep.i <= Len(sweep.ids)
    /\ LET id == sweep.ids[sweep.i]
           force_update == req.json.force_update
           store1 == store_after_get_or_create(trackers, id, now)
           keys1 == keys_after_get_or_create(tracker_keys, trackers, id)
           tracker == retrieve(store1, id)
           \* init_tracker(id) + recreate_from_dialogue(tracker.as_dialogue())
           new_tracker == tracker
           last_event_ts_from_id == tracker.latest_event_time
           channel == get_output_channel(req.query, new_tracker, config)
       IN  IF ~agent.tracker_store
           THEN /\ resp' = AttributeError
                /\ pc' = "done"
                /\ UNCHANGED <<tracker_keys, trackers, sweep, calls,
                               tracker_arg, output_channel>>
           ELSE /\ tracker_keys' = keys1
                /\ IF force_update
                      \/ compare_utcdatetime_with_timegap(sweep.current_time,
                             last_event_ts_from_id, seconds_in_a_day)
                   THEN /\ tracker_arg' = new_tracker
                        /\ output_channel' = channel
                        /\ IF channel = TypeError
                           THEN /\ trackers' = store1
                                /\ calls' = calls \cup
                                     {"tracker_store.get_or_create_tracker",
                                      "tracker_store.init_tracker"}
                                /\ resp' = ValueError500
                                /\ pc' = "done"
                                /\ UNCHANGED sweep
                           ELSE \E outcome \in AgentOutcomes :
                                /\ calls' = calls \cup
                                     {"tracker_store.get_or_create_tracker",
                                      "tracker_store.init_tracker",
                                      "agent.execute_action"}
                                /\ IF outcome = "ok"
                                   THEN /\ trackers' = store_after_save(store1, id,
                                               tracker_after_agent(tracker, now))
                                        /\ sweep' = [sweep EXCEPT
                                             !.i = @ + 1,
                                             !.responses =
                                                 (id :> <<"Action trigger sent">>) @@ @,
                                             !.dispatched = Append(@, id)]
                                        /\ pc' = "loop"
                                        /\ UNCHANGED resp
                                   ELSE /\ trackers' = store1
                                        /\ sweep' = [sweep EXCEPT
                                             !.dispatched = Append(@, id),
                                             !.failed = Append(@, id)]
                                        /\ resp' = IF outcome = "ValueError"
                                                   THEN ValueError400
                                                   ELSE ValueError500
                                        /\ pc' = "done"
                   ELSE /\ trackers' = store1
                        /\ calls' = calls \cup
                             {"tracker_store.get_or_create_tracker",
                              "tracker_store.init_tracker"}
                        /\ sweep' = [sweep EXCEPT !.i = @ + 1]
                        /\ pc' = "loop"
                        /\ UNCHANGED <<resp, tracker_arg, output_channel>>
    /\ UNCHANGED <<suspended, auth_token, config, agent, now, req, invoked>>

\* variant: an empty result is answered as an error
trigger_resume_inactive_conv_return_not_found ==
    /\ pc = "loop" /\ req.op = "trigger_resume_inactive_conv"
    /\ sweep.i > Len(sweep.ids)
    /\ resp' = IF DOMAIN sweep.responses = {}
               THEN ErrorResponse(404, "NotFound", "No conversation.", NoDetails)
               ELSE JsonResponse(200, sweep.responses)
    /\ pc' = "done"
    /\ UNCHANGED <<suspended, auth_token, config, agent, tracker_keys, trackers, now, req,
                   invoked, calls, sweep, tracker_arg, output_channel>>

\* the loop has ended: return response.json(responses)
trigger_resume_inactive_conv_return ==
    /\ pc = "loop" /\ req.op = "trigger_resume_inactive_conv"
    /\ sweep.i > Len(sweep.ids)
    /\ resp' = JsonResponse(200, sweep.responses)
    /\ pc' = "done"
    /\ UNCHANGED <<suspended, auth_token, config, agent, tracker_keys, trackers, now, req,
                   invoked, calls, sweep, tracker_arg, output_channel>>

-----------------------------------------------------------------------------
(* The server: one request at a time, every protected operation *)

Handlers ==
    \/ execute_action
    \/ append_event
    \/ retrieve_tracker
    \/ list_trackers
    \/ load_model
    \/ status
    \/ get_domain
    \/ handle_message_w_condition_start
    \/ handle_message_w_condition_key
    \/ handle_message_w_condition_return
    \/ trigger_resume_inactive_conv_start
    \/ trigger_resume_inactive_conv_key
    \/ trigger_resume_inactive_conv_return

Next ==
    \/ ReceiveRequest
    \/ decorated
    \/ ensure_loaded_agent
    \/ Handlers
    \/ Reply

Spec == Init /\ [][Next]_vars

-----------------------------------------------------------------------------
(* The sweeps over every store content: authentication disabled, agent ready *)

KeyUniverse == {T_plus1, T_plus2, T_a_plus1, T_a}

\* enumerations keys() can produce: distinct keys in any order
KeyEnumerations ==
    {ks \in UNION {[1..n -> KeyUniverse] : n \in 0..MaxKeys} :
        \A i, j \in DOMAIN ks : i # j => ks[i] # ks[j]}

\* a conversation idle for exactly a day with the slot set, and one idle for
\* a second less with the slot unset
TrackerOptions ==
    {StoredTracker(VALUE_X, StartTime - seconds_in_a_day, TELEGRAM),
     StoredTracker(None, StartTime - seconds_in_a_day + 1, SLACK)}

InitSweep ==
    /\ auth_token = None
    /\ \E channels_set \in BOOLEAN :
          config = AppConfig(FALSE, channels_set, DefaultChannels)
    /\ agent = [loaded |-> TRUE, ready |-> TRUE, tracker_store |-> TRUE,
                version |-> 0]
    /\ tracker_keys \in KeyEnumerations
    /\ trackers \in [{tracker_keys[i] : i \in DOMAIN tracker_keys}
                        -> TrackerOptions]
    /\ now = StartTime
    /\ InitRequest

NextSweep ==
    \/ ReceiveSweep
    \/ decorated
    \/ ensure_loaded_agent
    \/ handle_message_w_condition_start
    \/ handle_message_w_condition_key
    \/ handle_message_w_condition_return
    \/ trigger_resume_inactive_conv_start
    \/ trigger_resume_inactive_conv_key
    \/ trigger_resume_inactive_conv_return
    \/ Reply

SpecSweep == InitSweep /\ [][NextSweep]_vars

-----------------------------------------------------------------------------
(* Every operation under well-formed and malformed parameters, authentication
   disabled *)

ParamQueries ==
    {OptDict2("output_channel", None, "include_events", v) :
        v \in {None, <<"all">>, <<"bogus">>}}

ParamJsons ==
    {[DefaultJson EXCEPT !.has_event = e, !.has_body = b] :
        e \in BOOLEAN, b \in BOOLEAN}

ParamRequests ==
    UNION {{Request(op, NoCredentials, kw, q, j, a) :
                kw \in RouteKwargs(op), q \in ParamQueries, j \in ParamJsons,
                a \in {"json", "html"}} : op \in Ops}

ReceiveParams == Receive(ParamRequests)

InitParams ==
    /\ auth_token = None
    /\ \E channels_set \in BOOLEAN :
          config = AppConfig(FALSE, channels_set, DefaultChannels)
    /\ agent \in {NoAgent} \cup Agents(0)
    /\ tracker_keys = <<T_plus1, T_plus2>>
    /\ trackers = (T_plus1 :> StoredTracker(VALUE_X, 0, TELEGRAM))
                  @@ (T_plus2 :> StoredTracker(None, 1, SLACK))
    /\ now = StartTime
    /\ InitRequest

NextParams ==
    \/ ReceiveParams
    \/ decorated
    \/ ensure_loaded_agent
    \/ Handlers
    \/ Reply

SpecParams == InitParams /\ [][NextParams]_vars

-----------------------------------------------------------------------------
(* Two requests in flight on the event loop: a handler runs until it awaits
   the agent, and another request is served while it waits.  The effects of
   the awaited agent call are taken when the call is made. *)

\* the state of the running coroutine
Context ==
    [pc |-> pc, req |-> req, resp |-> resp, invoked |-> invoked,
     calls |-> calls, sweep |-> sweep, tracker_arg |-> tracker_arg,
     output_channel |-> output_channel]

\* the running sweep is at `await app.agent...` for the key before sweep.i
Awaiting ==
    /\ pc = "loop" /\ req.op \in SweepOps
    /\ sweep.i > 1
    /\ sweep.dispatched # <<>>
    /\ sweep.dispatched[Len(sweep.dispatched)] = sweep.ids[sweep.i - 1]

\* the event loop runs the other coroutine
Switch ==
    /\ pc = "idle" \/ Awaiting
    /\ ~(pc = "idle" /\ suspended.pc = "idle")
    /\ suspended' = Context
    /\ pc' = suspended.pc
    /\ req' = suspended.req
    /\ resp' = suspended.resp
    /\ invoked' = suspended.invoked
    /\ calls' = suspended.calls
    /\ sweep' = suspended.sweep
    /\ tracker_arg' = suspended.tracker_arg
    /\ output_channel' = suspended.output_channel
    /\ UNCHANGED <<auth_token, config, agent, tracker_keys, trackers, now>>

ConcJsons(op) ==
    IF op = "handle_message_w_condition"
    THEN {[DefaultJson EXCEPT !.force_update = b,
                              !.slot_condition_name = SLOT,
                              !.slot_value = VALUE_X] : b \in BOOLEAN}
    ELSE {[DefaultJson EXCEPT !.force_update = b] : b \in BOOLEAN}

\* the two sweeps and PUT /model
ConcRequests ==
    UNION {{Request(op, NoCredentials, EmptyDict, EmptyDict, j, "json") :
                j \in ConcJsons(op)} : op \in SweepOps}
    \cup {Request("load_model", NoCredentials, EmptyDict, EmptyDict,
                  DefaultJson, "json")}

ReceiveConc == Receive(ConcRequests)

InitConc ==
    /\ auth_token = None
    /\ config = AppConfig(FALSE, TRUE, DefaultChannels)
    /\ agent = [loaded |-> TRUE, ready |-> TRUE, tracker_store |-> TRUE,
                version |-> 0]
    /\ tracker_keys = <<T_plus1, T_plus2>>
    /\ trackers = (T_plus1 :> StoredTracker(VALUE_X, 0, TELEGRAM))
                  @@ (T_plus2 :> StoredTracker(None, 1, SLACK))
    /\ now = StartTime
    /\ InitRequest

NextConc ==
    \/ ReceiveConc
    \/ decorated
    \/ ensure_loaded_agent
    \/ load_model
    \/ handle_message_w_condition_start
    \/ handle_message_w_condition_key
    \/ handle_message_w_condition_return
    \/ trigger_resume_inactive_conv_start
    \/ trigger_resume_inactive_conv_key
    \/ trigger_resume_inactive_conv_return
    \/ Reply
    \/ Switch

SpecConc == InitConc /\ [][NextConc]_vars

-----------------------------------------------------------------------------
(* _get_output_channel applied to every request, tracker and channel list *)

ChannelNames == {TELEGRAM, SLACK}

\* channel.name() is any text, the sentinel included
RegisteredNames == ChannelNames \cup {USE_LATEST_INPUT_CHANNEL_AS_OUTPUT_CHANNEL}

RegisteredChannels ==
    UNION {[1..n -> [name : RegisteredNames, provides_output : BOOLEAN]] :
              n \in 0..MaxChannels}

ResolverQueries ==
    {OptDict2("output_channel", oc, "include_events", None) :
        oc \in {None, USE_LATEST_INPUT_CHANNEL_AS_OUTPUT_CHANNEL}
               \cup ChannelNames}

ResolverTrackers ==
    {NoTracker} \cup
    {StoredTracker(None, 0, ch) : ch \in {None} \cup ChannelNames}

InitResolver ==
    /\ auth_token = None
    /\ \/ config = AppConfig(FALSE, FALSE, <<>>)
       \/ \E channels \in RegisteredChannels :
             config = AppConfig(FALSE, TRUE, channels)
    /\ agent = NoAgent
    /\ tracker_keys = <<>>
    /\ trackers = EmptyDict
    /\ now = StartTime
    /\ pc = "idle"
    /\ \E q \in ResolverQueries :
          req = Request("none", NoCredentials, EmptyDict, q, DefaultJson, "json")
    /\ resp = NoResponse
    /\ invoked = FALSE
    /\ calls = {}
    /\ sweep = NoSweep
    /\ tracker_arg \in ResolverTrackers
    /\ output_channel = None
    /\ suspended = NoContext

\* a handler calls _get_output_channel(request, tracker)
ResolveOutputChannel ==
    /\ pc = "idle"
    /\ output_channel' = get_output_channel(req.query, tracker_arg, config)
    /\ pc' = "done"
    /\ UNCHANGED <<suspended, auth_token, config, agent, tracker_keys, trackers, now,
                   req, resp, invoked, calls, sweep, tracker_arg>>

NextResolver == ResolveOutputChannel

SpecResolver == InitResolver /\ [][NextResolver]_vars

-----------------------------------------------------------------------------
(* Properties of the authorization gate, checked under Spec *)

\* requires_auth has decided on the request in flight
GateDecided == pc \notin {"idle", "auth"}

\* the request's token equals the configured shared secret
SecretMatches == auth_token # None /\ req.token = auth_token

\* bearer auth is enabled and the request carries a verified token
BearerVerified == "USE_JWT" \in DOMAIN config /\ req.is_authenticated

\* bearer/JWT mode: rule 2 applies because rule 1 does not
BearerMode == ~SecretMatches /\ BearerVerified

HasUserClaim == "user" \in DOMAIN req.jwt_data

JwtRole ==
    IF HasUserClaim /\ "role" \in DOMAIN req.jwt_data["user"]
    THEN req.jwt_data["user"]["role"] ELSE None

JwtUsername ==
    IF HasUserClaim /\ "username" \in DOMAIN req.jwt_data["user"]
    THEN req.jwt_data["user"]["username"] ELSE None

HasTargetSenderId == req.op \in OpsWithSenderId

TargetSenderId ==
    IF "sender_id" \in DOMAIN req.kwargs THEN req.kwargs["sender_id"] ELSE None

Forbidden ==
    /\ pc = "done"
    /\ resp.kind = "error"
    /\ resp.status = 403
    /\ resp.error_info.reason = "NotAuthorized"

Unauthenticated ==
    /\ pc = "done"
    /\ resp.kind = "error"
    /\ resp.status = 401
    /\ resp.error_info.reason = "NotAuthenticated"

HandlerNotRun == ~invoked /\ calls = {}

\* C2: in bearer/JWT mode a request with role=user on an operation that has a
\* targetSenderId is granted iff username equals targetSenderId; when they
\* differ it fails with Forbidden (403) and the handler is not run.
C2_UserGrantedIffOwner ==
    (GateDecided /\ BearerMode /\ JwtRole = USER /\ HasTargetSenderId)
        => /\ invoked <=> (JwtUsername = TargetSenderId)
           /\ (JwtUsername # TargetSenderId) => (Forbidden /\ HandlerNotRun)

C2_Witness ==
    /\ GateDecided /\ BearerMode /\ JwtRole = USER /\ HasTargetSenderId
    /\ JwtUsername = TargetSenderId
    /\ invoked

\* C3: in bearer/JWT mode a request with role=user on an operation without a
\* targetSenderId is always denied with Forbidden, whatever the username.
C3_UserDeniedWithoutTarget ==
    (GateDecided /\ BearerMode /\ JwtRole = USER /\ ~HasTargetSenderId)
        => (Forbidden /\ HandlerNotRun)

C3_Witness ==
    /\ GateDecided /\ BearerMode /\ JwtRole = USER
    /\ req.op = "list_trackers"
    /\ JwtUsername = None
    /\ Forbidden

\* C4: in bearer/JWT mode every request whose claims carry role=admin is
\* granted, for any targetSenderId and for operations without one.
C4_AdminGranted ==
    (GateDecided /\ BearerMode /\ JwtRole = ADMIN) => invoked

C4_Witness ==
    /\ GateDecided /\ BearerMode /\ JwtRole = ADMIN
    /\ HasTargetSenderId /\ JwtUsername # TargetSenderId
    /\ invoked

\* C5: when a shared secret is configured and the request's token equals it,
\* access is granted whatever JWT role, username or targetSenderId the request
\* carries, and also when it carries no JWT at all.
C5_SecretGrants ==
    (GateDecided /\ SecretMatches) => invoked

C5_Witness ==
    /\ GateDecided /\ SecretMatches
    /\ "USE_JWT" \in DOMAIN config
    /\ req.is_authenticated /\ JwtRole = USER
    /\ HasTargetSenderId /\ JwtUsername # TargetSenderId
    /\ invoked

\* C6: when neither a shared secret nor bearer authentication is configured,
\* every request to every protected operation is granted, whatever its
\* credentials, also when the same request is repeated.
C6_DisabledGrantsAll ==
    (GateDecided /\ auth_token = None /\ "USE_JWT" \notin DOMAIN config)
        => invoked

\* a second GET tracker request for a conversation that only an earlier
\* GET tracker request can have created
C6_Witness ==
    /\ auth_token = None /\ "USE_JWT" \notin DOMAIN config
    /\ agent.version = 0 /\ ~agent.ready
    /\ pc = "handler" /\ req.op = "retrieve_tracker"
    /\ TargetSenderId = T_a /\ T_a \in DOMAIN trackers
    /\ req.token = None /\ ~req.is_authenticated
    /\ invoked

\* C7: when at least one authentication mode is configured and the request
\* satisfies none of them, the request fails with Unauthenticated (401,
\* NotAuthenticated) and is never granted.
C7_NoCredentialIs401 ==
    (/\ GateDecided
     /\ auth_token # None \/ "USE_JWT" \in DOMAIN config
     /\ ~SecretMatches
     /\ ~BearerVerified)
        => (Unauthenticated /\ HandlerNotRun)

C7_Witness ==
    /\ GateDecided
    /\ auth_token # None /\ req.token = WRONG
    /\ "USE_JWT" \in DOMAIN config /\ ~req.is_authenticated
    /\ Unauthenticated

C9_GateFailureEndsRequest ==
    [][/\ (resp'.error_info.reason \in {"NotAuthenticated", "NotAuthorized"})
            => /\ pc' = "done"
               /\ ~invoked' /\ calls' = {}
               /\ UNCHANGED <<agent, tracker_keys, trackers>>
       /\ (/\ pc = "auth" /\ pc' = "done"
           /\ ~SecretMatches /\ ~BearerVerified
           /\ auth_token # None \/ "USE_JWT" \in DOMAIN config)
            => resp'.error_info.reason = "NotAuthenticated"]_vars

C9_Witness ==
    /\ Unauthenticated
    /\ req.op \in OpsEnsuringAgent
    /\ ~agent.loaded
    /\ HandlerNotRun

-----------------------------------------------------------------------------
(* Properties of the sweeps, checked under SpecSweep *)

SweepOver == pc = "done" /\ req.op \in SweepOps

\* C1: in a sweep over keys [A, B, C] where the action call for B fails and
\* the calls for A and C succeed, the sweep completes without raising an
\* error, the action is still run for C, and A and C are reported triggered:
\* a failure on one key never prevents the keys after it from being processed.
C1_FailureDoesNotHaltSweep ==
    (/\ SweepOver
     /\ Len(sweep.ids) = 3
     /\ sweep.failed = <<sweep.ids[2]>>
     /\ sweep.ids[1] \in DOMAIN sweep.responses)
        => /\ resp.kind = "ok"
           /\ \E k \in 1..Len(sweep.dispatched) :
                 sweep.dispatched[k] = sweep.ids[3]
           /\ sweep.ids[1] \in DOMAIN resp.body
           /\ sweep.ids[3] \in DOMAIN resp.body

-----------------------------------------------------------------------------
(* Properties of _get_output_channel, checked under SpecResolver *)

Resolved == pc = "done"

ChannelsRegistered == "input_channels" \in DOMAIN config

RequestedName ==
    IF "output_channel" \in DOMAIN req.query THEN req.query["output_channel"]
    ELSE None

\* the request names the sentinel and a conversation snapshot is given
LatestRequested ==
    RequestedName = USE_LATEST_INPUT_CHANNEL_AS_OUTPUT_CHANNEL
    /\ tracker_arg.exists

\* registered channels named like the conversation's last inbound channel
NamedLikeLatest ==
    {i \in DOMAIN config["input_channels"] :
        config["input_channels"][i].name = tracker_arg.latest_input_channel}

ResolvedName ==
    IF LatestRequested THEN tracker_arg.latest_input_channel ELSE RequestedName

\* registered channels with the resolved name, and those that provide output
NamedAsResolved ==
    {i \in DOMAIN config["input_channels"] :
        config["input_channels"][i].name = ResolvedName}

ProvidersNamedAsResolved ==
    {i \in NamedAsResolved : config["input_channels"][i].provides_output}

\* C11 (as stated): when several registered channels have the resolved
\* requested name, the resolver returns the output handle of the first one in
\* registration order that provides output.
C11_FirstProviderReturned ==
    (/\ Resolved /\ ChannelsRegistered
     /\ Cardinality(NamedAsResolved) >= 2
     /\ ProvidersNamedAsResolved # {})
        => output_channel = <<"OutputChannel", SetMin(ProvidersNamedAsResolved)>>

\* C11 (amended): when several registered channels have the resolved requested
\* name, the resolver returns the output handle of the last one in
\* registration order that provides output.
C11_LastProviderReturned ==
    (/\ Resolved /\ ChannelsRegistered
     /\ Cardinality(NamedAsResolved) >= 2
     /\ ProvidersNamedAsResolved # {})
        => output_channel = <<"OutputChannel", SetMax(ProvidersNamedAsResolved)>>

C11_Witness ==
    /\ Resolved /\ ChannelsRegistered
    /\ Cardinality(ProvidersNamedAsResolved) >= 2
    /\ output_channel = <<"OutputChannel", SetMax(ProvidersNamedAsResolved)>>

-----------------------------------------------------------------------------
(* Properties of the sweep predicates and outcomes, checked under SpecSweep *)

\* the sweep in flight is about to process its next key
AtKey(op) ==
    /\ pc = "loop" /\ req.op = op
    /\ sweep.i <= Len(sweep.ids)
    /\ sweep.ids[sweep.i] \in DOMAIN trackers

CurrentKey == sweep.ids[sweep.i]

\* the step leaves the current key without calling the agent for it
KeySkipped ==
    /\ pc' = "loop"
    /\ sweep'.i = sweep.i + 1
    /\ sweep'.dispatched = sweep.dispatched
    /\ sweep'.responses = sweep.responses

\* the step calls the agent for the current key
KeyDispatched == sweep'.dispatched = Append(sweep.dispatched, CurrentKey)

\* seconds between the sweep's start time and the key's last event
IdleSeconds == sweep.current_time - trackers[CurrentKey].latest_event_time

C13_ForceTriggersEveryKey ==
    [][(/\ pc = "loop" /\ req.op \in SweepOps
        /\ sweep.i <= Len(sweep.ids)
        /\ req.json.force_update
        /\ ChannelsRegistered)
          => KeyDispatched]_vars

\* the sweep in flight has enumerated the keys of the store
KeysEnumerated ==
    /\ req.op \in SweepOps
    /\ pc \in {"loop", "done"}
    /\ "tracker_store.keys" \in calls

AgentCalls == {"agent.execute_action", "agent.handle_text"}

\* C14: a sweep of either operation whose key enumeration is empty answers
\* with an empty outcome and no error, and never calls the agent.
C14_EmptyStoreEmptyOutcome ==
    (KeysEnumerated /\ sweep.ids = <<>>)
        => /\ calls \cap AgentCalls = {}
           /\ sweep.dispatched = <<>>
           /\ pc = "done" => resp = JsonResponse(200, EmptyDict)

C14_Witness ==
    /\ KeysEnumerated /\ sweep.ids = <<>>
    /\ pc = "done"
    /\ resp.kind = "ok"

\* C15 (as stated): a sweep answers its caller, with a result or with an
\* error, only after every enumerated key has been processed.
C15_NoAnswerBeforeLastKey ==
    (KeysEnumerated /\ pc = "done") => sweep.i > Len(sweep.ids)

EnumeratedKeys == {sweep.ids[n] : n \in DOMAIN sweep.ids}

DispatchedKeys == {sweep.dispatched[n] : n \in DOMAIN sweep.dispatched}

\* a sweep has answered with its outcome
SweepAnswered ==
    /\ KeysEnumerated /\ pc = "done"
    /\ resp.kind = "ok"

\* C16 (as stated): the outcome a sweep returns has exactly one entry per
\* enumerated key, so the number of entries equals the number of keys.
C16_OneEntryPerKey ==
    SweepAnswered
        => /\ DOMAIN resp.body = EnumeratedKeys
           /\ Cardinality(DOMAIN resp.body) = Len(sweep.ids)

\* C16 (amended): the outcome a sweep returns has exactly one entry per key
\* the action was triggered on; a key whose predicate is false is absent from
\* it, so the number of entries is at most the number of enumerated keys.
C16_OneEntryPerTriggeredKey ==
    SweepAnswered
        => /\ DOMAIN resp.body = DispatchedKeys
           /\ DOMAIN resp.body \subseteq EnumeratedKeys
           /\ Cardinality(DOMAIN resp.body) = Len(sweep.dispatched)
           /\ Cardinality(DOMAIN resp.body) <= Len(sweep.ids)

C16_Witness ==
    /\ SweepAnswered
    /\ ~req.json.force_update
    /\ DOMAIN resp.body # {}
    /\ Cardinality(DOMAIN resp.body) < Len(sweep.ids)

-----------------------------------------------------------------------------
(* Properties of the error responses, checked under SpecParams and Spec *)

\* the request in flight has been answered with this reason code
FailedWith(reason) ==
    /\ pc = "done"
    /\ resp.kind = "error"
    /\ resp.error_info.reason = reason

StoreCalls == {"tracker_store.keys", "tracker_store.get_or_create_tracker",
               "tracker_store.init_tracker", "tracker_store.save"}

\* C17 (as stated): a request that ends in InvalidParameter has made no
\* tracker-store call and no agent call, and has created or modified no
\* conversation.
C17_InvalidParameterBeforeAnyCall ==
    [][FailedWith("InvalidParameter")'
          => /\ calls' \cap (StoreCalls \cup AgentCalls) = {}
             /\ UNCHANGED <<tracker_keys, trackers>>]_vars

\* the request in flight has been answered with a failure
Failed == pc = "done" /\ resp.kind # "ok"

\* the response body is the error envelope of ErrorResponse
StructuredError ==
    /\ resp.kind = "error"
    /\ resp.status \in Nat
    /\ DOMAIN resp.error_info
          = {"status", "message", "reason", "details", "code"}
    /\ resp.error_info.status = "failure"
    /\ resp.error_info.code = resp.status

\* C18 (as stated): every failure a protected operation answers with is the
\* structured error envelope, its code field equal to the response status.
C18_FailuresAreStructured == Failed => StructuredError

-----------------------------------------------------------------------------
(* Properties of overlapping requests, checked under SpecConc *)

\* the running sweep processes its next key in this step
KeyStep ==
    /\ pc = "loop" /\ req.op \in SweepOps
    /\ sweep.i <= Len(sweep.ids)
    /\ suspended' = suspended

\* C19 (as stated): a sweep processes every key through the agent from which
\* it enumerated its keys, also when PUT /model has replaced app.agent while
\* the sweep was suspended between keys.
C19_SweepKeepsItsAgent ==
    [][KeyStep => agent = sweep.agent]_vars

\* the conversation a sweep reads for a key
ConversationOf(op, id) ==
    IF op = "handle_message_w_condition" /\ re_findall_first(id) # <<>>
    THEN re_findall_first(id)[1]
    ELSE id

\* the predicate of the running sweep holds for its current key in the store
PredicateHolds ==
    LET c == ConversationOf(req.op, CurrentKey)
    IN  /\ c \in DOMAIN trackers
        /\ \/ req.json.force_update
           \/ /\ req.op = "handle_message_w_condition"
              /\ req.json.slot_condition_name = SLOT
              /\ trackers[c].slot = req.json.slot_value
           \/ /\ req.op = "trigger_resume_inactive_conv"
              /\ sweep.current_time - trackers[c].latest_event_time
                    >= seconds_in_a_day

\* the suspended request is a sweep that has triggered the conversation
TriggeredBySuspended(c) ==
    /\ suspended.pc = "loop"
    /\ \E n \in DOMAIN suspended.sweep.dispatched :
          ConversationOf(suspended.req.op, suspended.sweep.dispatched[n]) = c

\* C20: overlapping sweeps are not de-duplicated: a sweep whose predicate holds
\* for a conversation triggers the action on it although the other sweep in
\* flight has already triggered the action on that conversation.
C20_NoDeduplication ==
    [][(/\ KeyStep
        /\ re_findall_first(CurrentKey) # <<>>
        /\ agent.tracker_store
        /\ PredicateHolds
        /\ TriggeredBySuspended(ConversationOf(req.op, CurrentKey)))
          => KeyDispatched]_vars

\* both sweeps in flight found their predicate true for the same conversation
\* and both triggered the action on it
C20_Witness ==
    /\ req.op \in SweepOps /\ pc = "loop"
    /\ ~req.json.force_update /\ ~suspended.req.json.force_update
    /\ \E n \in DOMAIN sweep.dispatched :
          /\ sweep.dispatched[n] \in DOMAIN sweep.responses
          /\ sweep.dispatched[n] \in DOMAIN suspended.sweep.responses
          /\ TriggeredBySuspended(ConversationOf(req.op, sweep.dispatched[n]))

-----------------------------------------------------------------------------
(* Further properties of _get_output_channel, checked under SpecResolver *)

\* no name is requested, or the sentinel is requested without a snapshot
NameUnresolved ==
    \/ RequestedName = None
    \/ /\ RequestedName = USE_LATEST_INPUT_CHANNEL_AS_OUTPUT_CHANNEL
       /\ ~tracker_arg.exists

\* registered channels that are themselves named like the sentinel and
\* provide output
ProvidersNamedLatest ==
    {i \in DOMAIN config["input_channels"] :
        /\ config["input_channels"][i].name
              = USE_LATEST_INPUT_CHANNEL_AS_OUTPUT_CHANNEL
        /\ config["input_channels"][i].provides_output}

C24_ResolverAlwaysReturnsHandle ==
    Resolved
        => \/ output_channel = CollectingOutputChannel
           \/ /\ ChannelsRegistered
              /\ \E i \in DOMAIN config["input_channels"] :
                    /\ config["input_channels"][i].provides_output
                    /\ output_channel = <<"OutputChannel", i>>

-----------------------------------------------------------------------------
(* The predicate of the conditional message dispatch, checked under SpecSweep *)

\* the stored value of the slot the request names, for the conversation
\* enumerated under this key
StoredSlotValue(id) ==
    IF req.json.slot_condition_name = SLOT THEN trackers[id].slot ELSE None

\* C22 (as stated): the conditional message dispatch calls the agent for a key
\* iff force_update is set or the conversation's value of the named slot
\* equals the supplied value; otherwise the key is passed over without an
\* agent call and the store is left as it was.
C22_DispatchIffPredicate ==
    [][(AtKey("handle_message_w_condition") /\ ChannelsRegistered)
          => IF \/ req.json.force_update
                \/ StoredSlotValue(CurrentKey) = req.json.slot_value
             THEN KeyDispatched
             ELSE /\ KeySkipped
                  /\ UNCHANGED <<tracker_keys, trackers>>]_vars

-----------------------------------------------------------------------------
(* The order of the authentication rules, checked under Spec *)

\* a shared secret and bearer auth are both configured; the request's token is
\* missing or wrong and it carries a verified JWT
SecretFailedJwtVerified ==
    /\ auth_token # None
    /\ ~SecretMatches
    /\ BearerVerified

OwningUser ==
    /\ JwtRole = USER
    /\ HasTargetSenderId
    /\ JwtUsername = TargetSenderId

\* C23: with a shared secret and bearer auth both configured, a request whose
\* token is missing or does not match the secret and which carries a verified
\* JWT is decided by the JWT role rules: admin granted, owning user granted,
\* otherwise 403; it is never rejected with 401.
C23_FailedSecretFallsThroughToJwt ==
    (GateDecided /\ SecretFailedJwtVerified)
        => /\ ~Unauthenticated
           /\ invoked <=> (JwtRole = ADMIN \/ OwningUser)
           /\ ~invoked => (Forbidden /\ HandlerNotRun)

C23_Witness ==
    /\ GateDecided /\ SecretFailedJwtVerified
    /\ req.token = WRONG
    /\ OwningUser
    /\ invoked

====
